---- MODULE Spec2Model ----
(***************************************************************************)
(* The two analysis scripts of the repository, statisticaltest.py and      *)
(* barchart.py, as state machines over the contents of ./logs/results.csv. *)
(*                                                                         *)
(* A float64 is modelled exactly, as a pair <<n, d>>:                      *)
(*   d > 0   the rational n/d in lowest terms,                             *)
(*   d = 0   the IEEE specials: <<0,0>> is NaN, <<1,0>> is +inf and        *)
(*           <<-1,0>> is -inf.                                             *)
(* Rounding error of the binary representation is not modelled.  A value   *)
(* x / sqrt(r) (Cohen's d, the t statistic) is kept as the pair            *)
(* <<sign x, x*x/r>>, its sign and its square, which determine it.         *)
(***************************************************************************)
EXTENDS Integers, Sequences, FiniteSets, TLC

VARIABLES
    file,             \* ./logs/results.csv as found on disk
    pc,               \* next statement of the running script
    fault,            \* the exception that ended the run, "" if none
    df,               \* the loaded record table
    mean_times,       \* statisticaltest.py:8
    pivot,            \* statisticaltest.py:10-19
    differences,      \* statisticaltest.py:26
    cohens_d,         \* statisticaltest.py:27
    sizes,            \* the array the for loop of line 32 iterates over
    idx,              \* number of loop elements consumed so far
    loopv,            \* msg_size, k1_data, k8_data, t_stat, p_val, mean_improvement
    out,              \* what has been written to standard output, in order
    chart             \* barchart.py: means, stds, ns, cis, byte_sizes, bars

vars == <<file, pc, fault, df, mean_times, pivot, differences, cohens_d,
          sizes, idx, loopv, out, chart>>

----------------------------------------------------------------------------
(* Bounds of the model *)

MaxRows == 4

KValues == {1, 2, 8}
ByteValues == {64, 128}
TimeValues == {0, 1}

----------------------------------------------------------------------------
(* float64 arithmetic *)

NaN == <<0, 0>>
PosInf == <<1, 0>>
NegInf == <<-1, 0>>

Abs(x) == IF x < 0 THEN -x ELSE x

Sgn(x) == IF x < 0 THEN -1 ELSE IF x > 0 THEN 1 ELSE 0

RECURSIVE GCD(_, _)
GCD(a, b) == IF b = 0 THEN a ELSE GCD(b, a % b)

\* n/d in lowest terms, for d > 0
Norm(n, d) ==
    LET g == GCD(Abs(n), d)
    IN  <<n \div g, d \div g>>

F(n) == <<n, 1>>

IsNaN(a) == a = NaN
IsInf(a) == a[2] = 0 /\ a[1] # 0
IsFinite(a) == a[2] > 0

FNeg(a) == <<-a[1], a[2]>>

FAdd(a, b) ==
    IF IsNaN(a) \/ IsNaN(b) THEN NaN
    ELSE IF IsInf(a) THEN (IF IsInf(b) /\ b # a THEN NaN ELSE a)
    ELSE IF IsInf(b) THEN b
    ELSE Norm(a[1] * b[2] + b[1] * a[2], a[2] * b[2])

FSub(a, b) == FAdd(a, FNeg(b))

FMul(a, b) ==
    IF IsNaN(a) \/ IsNaN(b) THEN NaN
    ELSE IF IsInf(a) \/ IsInf(b)
         THEN (IF a[1] = 0 \/ b[1] = 0 THEN NaN
               ELSE <<Sgn(a[1]) * Sgn(b[1]), 0>>)
    ELSE Norm(a[1] * b[1], a[2] * b[2])

\* (mutation) a zero divisor is guarded and gives 0
FDivGuarded(a, b) ==
    IF IsNaN(a) \/ IsNaN(b) THEN NaN
    ELSE IF IsInf(a) THEN (IF IsInf(b) THEN NaN
                           ELSE IF b[1] < 0 THEN FNeg(a) ELSE a)
    ELSE IF IsInf(b) \/ b[1] = 0 THEN F(0)
    ELSE Norm(a[1] * b[2] * Sgn(b[1]), a[2] * Abs(b[1]))

\* numpy / pandas float64 division: a zero divisor gives inf or NaN and
\* a RuntimeWarning at most, it never raises
FDiv(a, b) ==
    IF IsNaN(a) \/ IsNaN(b) THEN NaN
    ELSE IF IsInf(a) THEN (IF IsInf(b) THEN NaN
                           ELSE IF b[1] < 0 THEN FNeg(a) ELSE a)
    ELSE IF IsInf(b) THEN F(0)
    ELSE IF b[1] = 0 THEN <<Sgn(a[1]), 0>>
    ELSE Norm(a[1] * b[2] * Sgn(b[1]), a[2] * Abs(b[1]))

\* a / sqrt(r) for r >= 0 or NaN, as <<sign, square>>
FDivSqrt(a, r) ==
    IF IsNaN(a) \/ IsNaN(r) THEN <<0, NaN>>
    ELSE LET q == FDiv(FMul(a, a), r)
         IN  IF IsNaN(q) THEN <<0, NaN>> ELSE <<Sgn(a[1]), q>>

----------------------------------------------------------------------------
(* Sequences *)

SeqSum(s) ==
    LET partial[i \in 0..Len(s)] == IF i = 0 THEN F(0) ELSE FAdd(partial[i - 1], s[i])
    IN  partial[Len(s)]

SetMin(S) == CHOOSE x \in S : \A y \in S : x <= y

RECURSIVE SortedSeq(_)
SortedSeq(S) == IF S = {} THEN <<>>
                ELSE <<SetMin(S)>> \o SortedSeq(S \ {SetMin(S)})

Range(s) == {s[i] : i \in 1..Len(s)}


\* order of first appearance, as pandas.Series.unique
RECURSIVE Unique(_)
Unique(s) ==
    IF s = <<>> THEN <<>>
    ELSE LET u == Unique(SubSeq(s, 1, Len(s) - 1))
         IN  IF s[Len(s)] \in Range(u) THEN u ELSE Append(u, s[Len(s)])

----------------------------------------------------------------------------
(* Series reductions *)

\* Series.mean and the group-by mean: sum / count, NaN for no values
Mean(s) == FDiv(SeqSum(s), F(Len(s)))

SumSqDev(s) ==
    LET m == Mean(s)
    IN  SeqSum([i \in 1..Len(s) |-> FMul(FSub(s[i], m), FSub(s[i], m))])

\* variance with divisor n - 1 (ddof=1): NaN for fewer than two values
Var1(s) == IF Len(s) <= 1 THEN NaN ELSE FDiv(SumSqDev(s), F(Len(s) - 1))

\* skipna=True, the default of the Series reductions
DropNa(s) == SelectSeq(s, LAMBDA x : ~IsNaN(x))

----------------------------------------------------------------------------
(* The input file *)

\* the records a file is drawn from: every level at every size with the
\* time 1, and the other times for the two compared levels at the smallest size
Records ==
    {r \in [k : KValues, bytes : ByteValues, time : {F(t) : t \in TimeValues}] :
        r.time = F(1) \/ (r.k \in {1, 8} /\ r.bytes = SetMin(ByteValues))}

RECURSIVE SeqsUpTo(_, _)
SeqsUpTo(S, n) ==
    IF n = 0 THEN {<<>>}
    ELSE LET shorter == SeqsUpTo(S, n - 1)
         IN  shorter \cup {Append(s, x) : s \in {t \in shorter : Len(t) = n - 1}, x \in S}

AllColumns == {"k", "bytes", "time"}

\* a readable file with its header and rows, a file whose header lacks a
\* column, an unparsable file, or no file at all
Files ==
    [exists : {TRUE}, parses : {TRUE}, columns : {AllColumns}, rows : SeqsUpTo(Records, MaxRows)]
    \cup [exists : {TRUE}, parses : {TRUE}, columns : {AllColumns \ {c} : c \in AllColumns}, rows : {<<>>}]
    \cup [exists : BOOLEAN, parses : {FALSE}, columns : {AllColumns}, rows : {<<>>}]


----------------------------------------------------------------------------
(* pandas operations of statisticaltest.py *)

\* the time values of the records with the given k and bytes, in file order
TimesOf(d, k, b) ==
    LET sel == SelectSeq(d, LAMBDA r : r.k = k /\ r.bytes = b)
    IN  [i \in 1..Len(sel) |-> sel[i].time]

\* df.groupby(['k', 'bytes'])['time'].mean().reset_index(): one row per
\* (k, bytes) pair that occurs, sorted by k and then by bytes
RECURSIVE GroupRows(_, _, _)
GroupRows(d, ks, bs) ==
    IF ks = <<>> THEN <<>>
    ELSE LET k == Head(ks)
             here == SelectSeq(bs, LAMBDA b : TimesOf(d, k, b) # <<>>)
         IN  [i \in 1..Len(here) |->
                 [k |-> k, bytes |-> here[i], time |-> Mean(TimesOf(d, k, here[i]))]]
             \o GroupRows(d, Tail(ks), bs)

MeanTimes(d) ==
    GroupRows(d, SortedSeq({d[i].k : i \in 1..Len(d)}),
                 SortedSeq({d[i].bytes : i \in 1..Len(d)}))

\* the label of a k level as a column of the pivoted table
KLabel(k) == CASE k = 1 -> "1" [] k = 2 -> "2" [] k = 8 -> "8" [] OTHER -> "?"

\* mean_times.pivot(index='bytes', columns='k', values='time'): a row per
\* bytes value and a column per k level, both sorted; NaN where the pair
\* has no row in mean_times
Pivot(mt) ==
    LET index == SortedSeq({mt[i].bytes : i \in 1..Len(mt)})
        ks == SortedSeq({mt[i].k : i \in 1..Len(mt)})
        Cell(b, k) ==
            IF \E i \in 1..Len(mt) : mt[i].bytes = b /\ mt[i].k = k
            THEN mt[CHOOSE i \in 1..Len(mt) : mt[i].bytes = b /\ mt[i].k = k].time
            ELSE NaN
    IN  [index |-> index,
         columns |-> [j \in 1..Len(ks) |-> KLabel(ks[j])],
         cells |-> [i \in 1..Len(index) |-> [j \in 1..Len(ks) |-> Cell(index[i], ks[j])]]]

\* pivot.columns = [...]: relabels the columns by position; a list of
\* another length raises ValueError
SetColumnsRaises(p, names) == Len(names) # Len(p.columns)

SetColumns(p, names) == [p EXCEPT !.columns = names]

\* pivot[label]: the column as a Series over the index
Column(p, label) ==
    LET j == CHOOSE c \in 1..Len(p.columns) : p.columns[c] = label
    IN  [i \in 1..Len(p.index) |-> p.cells[i][j]]

\* pivot[label] = values: a new column is appended on the right
AddColumn(p, label, values) ==
    [p EXCEPT !.columns = Append(p.columns, label),
              !.cells = [i \in 1..Len(p.index) |-> Append(p.cells[i], values[i])]]

\* pivot[[labels]]: the sub-table of the named columns
SubFrame(p, labels) ==
    [index |-> p.index, columns |-> labels,
     cells |-> [i \in 1..Len(p.index) |->
                   [j \in 1..Len(labels) |-> Column(p, labels[j])[i]]]]

\* element-wise Series arithmetic
SeriesSub(a, b) == [i \in 1..Len(a) |-> FSub(a[i], b[i])]
SeriesDiv(a, b) == [i \in 1..Len(a) |-> FDiv(a[i], b[i])]
SeriesScale(a, c) == [i \in 1..Len(a) |-> FMul(a[i], c)]

\* line 18
ImprovementColumn(p) ==
    SeriesScale(SeriesDiv(SeriesSub(Column(p, "k1"), Column(p, "k8")), Column(p, "k1")),
                F(100))

\* line 19
TimeSavedColumn(p) == SeriesSub(Column(p, "k1"), Column(p, "k8"))

\* (mutation) the time saved is computed in place, in the k1 column
DeriveInPlace(p) ==
    LET p1 == AddColumn(p, "improvement_%", ImprovementColumn(p))
        p2 == AddColumn(p1, "time_saved_s", TimeSavedColumn(p1))
    IN  [p2 EXCEPT !.cells = [i \in 1..Len(p2.index) |->
                                 [p2.cells[i] EXCEPT ![1] = TimeSavedColumn(p1)[i]]]]

\* lines 18-19
Derive(p) ==
    LET p1 == AddColumn(p, "improvement_%", ImprovementColumn(p))
    IN  AddColumn(p1, "time_saved_s", TimeSavedColumn(p1))

\* line 26
Differences(p) == SeriesSub(Column(p, "k1"), Column(p, "k8"))

\* line 27: np.mean and np.std of a Series are the Series' own reductions,
\* which skip NaN
CohensD(diffs) == FDivSqrt(Mean(DropNa(diffs)), Var1(DropNa(diffs)))

\* (mutation) the k=1 sample is the aggregated mean instead of the raw values
K1DataOfMeans(d, msg_size) ==
    IF TimesOf(d, 1, msg_size) = <<>> THEN <<>> ELSE <<Mean(TimesOf(d, 1, msg_size))>>

\* lines 33-34: boolean-mask selection of the raw samples
K1Data(d, msg_size) == TimesOf(d, 1, msg_size)
K8Data(d, msg_size) == TimesOf(d, 8, msg_size)

\* scipy.stats.ttest_ind(a, b) with its defaults (equal_var=True,
\* alternative='two-sided'): NaN for an empty sample; the variance of a
\* single observation counts as zero in the pooled variance.  The p-value
\* 2 * sf(|t|, df) is kept as the pair <<t*t, df>> it is a function of.
TTestInd(a, b) ==
    IF Len(a) = 0 \/ Len(b) = 0 THEN [t |-> <<0, NaN>>, p |-> <<NaN, 0>>]
    ELSE LET n1 == Len(a)
             n2 == Len(b)
             v1 == IF n1 = 1 THEN F(0) ELSE Var1(a)
             v2 == IF n2 = 1 THEN F(0) ELSE Var1(b)
             dof == n1 + n2 - 2
             svar == FDiv(FAdd(FMul(F(n1 - 1), v1), FMul(F(n2 - 1), v2)), F(dof))
             denom2 == FMul(svar, FAdd(FDiv(F(1), F(n1)), FDiv(F(1), F(n2))))
             t == FDivSqrt(FSub(Mean(a), Mean(b)), denom2)
         IN  [t |-> t, p |-> IF IsNaN(t[2]) THEN <<NaN, 0>> ELSE <<t[2], dof>>]

\* line 37
MeanImprovement(k1_data, k8_data) ==
    FMul(FDiv(FSub(Mean(k1_data), Mean(k8_data)), Mean(k1_data)), F(100))


----------------------------------------------------------------------------
(* statisticaltest.py *)

EmptyFrame == [index |-> <<>>, columns |-> <<>>, cells |-> <<>>]

NoLoopVars == [msg_size |-> 0, k1_data |-> <<>>, k8_data |-> <<>>,
               t_stat |-> <<0, NaN>>, p_val |-> <<NaN, 0>>, mean_improvement |-> NaN]

NoChart == [means |-> <<>>, stds |-> <<>>, ns |-> <<>>, cis |-> <<>>,
            byte_sizes |-> <<>>, bars |-> <<>>]

\* before the first statement: nothing is bound yet (the placeholders are
\* never read before the statement that assigns the name)
Init ==
    /\ file \in Files
    /\ pc = "load"
    /\ fault = ""
    /\ df = <<>>
    /\ mean_times = <<>>
    /\ pivot = EmptyFrame
    /\ differences = <<>>
    /\ cohens_d = <<0, NaN>>
    /\ sizes = <<>>
    /\ idx = 0
    /\ loopv = NoLoopVars
    /\ out = <<>>
    /\ chart = NoChart

\* (mutation) the first table is printed before its columns are renamed
StmtAfterPrintFirst(stmt) ==
    CASE stmt = "load" -> "groupby"
      [] stmt = "groupby" -> "pivot"
      [] stmt = "pivot" -> "print_means"
      [] stmt = "print_means" -> "rename"
      [] stmt = "rename" -> "derive"
      [] stmt = "derive" -> "print_improvements"
      [] stmt = "print_improvements" -> "effect_size"
      [] stmt = "effect_size" -> "print_cohens_d"
      [] stmt = "print_cohens_d" -> "print_tests_title"
      [] stmt = "print_tests_title" -> "for"
      [] stmt = "for" -> "loop"
      [] stmt = "loop_body" -> "print_block"
      [] stmt = "print_block" -> "loop"
      [] OTHER -> "done"

\* the statement that follows a statement that completed
StmtAfter(stmt) ==
    CASE stmt = "load" -> "groupby"
      [] stmt = "groupby" -> "pivot"
      [] stmt = "pivot" -> "rename"
      [] stmt = "rename" -> "print_means"
      [] stmt = "print_means" -> "derive"
      [] stmt = "derive" -> "print_improvements"
      [] stmt = "print_improvements" -> "effect_size"
      [] stmt = "effect_size" -> "print_cohens_d"
      [] stmt = "print_cohens_d" -> "print_tests_title"
      [] stmt = "print_tests_title" -> "for"
      [] stmt = "for" -> "loop"
      [] stmt = "loop_body" -> "print_block"
      [] stmt = "print_block" -> "loop"
      [] OTHER -> "done"

Raise(exc) == pc' = "fault" /\ fault' = exc

PrintLines(items) == out' = out \o items

\* pd.read_csv: raises when the file is absent or cannot be parsed
ReadCsvRaises(f) == ~f.exists \/ ~f.parses

ReadCsvError(f) == IF ~f.exists THEN "FileNotFoundError" ELSE "ParserError"

ReadCsv(f) == f.rows

\* line 5
Load ==
    /\ pc = "load"
    /\ IF ReadCsvRaises(file)
       THEN Raise(ReadCsvError(file)) /\ UNCHANGED df
       ELSE df' = ReadCsv(file) /\ pc' = StmtAfter("load") /\ UNCHANGED fault
    /\ UNCHANGED <<file, mean_times, pivot, differences, cohens_d, sizes, idx, loopv, out, chart>>

\* line 8: a grouping or value column absent from the table raises KeyError
GroupBy ==
    /\ pc = "groupby"
    /\ IF ~({"k", "bytes", "time"} \subseteq file.columns)
       THEN Raise("KeyError") /\ UNCHANGED mean_times
       ELSE mean_times' = MeanTimes(df) /\ pc' = StmtAfter("groupby") /\ UNCHANGED fault
    /\ UNCHANGED <<file, df, pivot, differences, cohens_d, sizes, idx, loopv, out, chart>>

\* line 10
PivotStep ==
    /\ pc = "pivot"
    /\ pivot' = Pivot(mean_times)
    /\ pc' = StmtAfter("pivot")
    /\ UNCHANGED <<file, fault, df, mean_times, differences, cohens_d, sizes, idx, loopv, out, chart>>

\* line 11
Rename ==
    /\ pc = "rename"
    /\ IF SetColumnsRaises(pivot, <<"k1", "k8">>)
       THEN Raise("ValueError") /\ UNCHANGED pivot
       ELSE pivot' = SetColumns(pivot, <<"k1", "k8">>) /\ pc' = StmtAfter("rename")
            /\ UNCHANGED fault
    /\ UNCHANGED <<file, df, mean_times, differences, cohens_d, sizes, idx, loopv, out, chart>>

\* lines 13-15
PrintMeans ==
    /\ pc = "print_means"
    /\ PrintLines(<<[kind |-> "text", val |-> "Mean Transfer Times:"],
               [kind |-> "mean_times_table", val |-> pivot],
               [kind |-> "rule", val |-> 60]>>)
    /\ pc' = StmtAfter("print_means")
    /\ UNCHANGED <<file, fault, df, mean_times, pivot, differences, cohens_d, sizes, idx, loopv, chart>>

\* lines 18-19
DeriveStep ==
    /\ pc = "derive"
    /\ pivot' = Derive(pivot)
    /\ pc' = StmtAfter("derive")
    /\ UNCHANGED <<file, fault, df, mean_times, differences, cohens_d, sizes, idx, loopv, out, chart>>

\* lines 21-23
PrintImprovements ==
    /\ pc = "print_improvements"
    /\ PrintLines(<<[kind |-> "text", val |-> "Performance Improvements:"],
               [kind |-> "improvements_table",
                val |-> SubFrame(pivot, <<"improvement_%", "time_saved_s">>)],
               [kind |-> "rule", val |-> 60]>>)
    /\ pc' = StmtAfter("print_improvements")
    /\ UNCHANGED <<file, fault, df, mean_times, pivot, differences, cohens_d, sizes, idx, loopv, chart>>

\* lines 26-27
EffectSize ==
    /\ pc = "effect_size"
    /\ differences' = Differences(pivot)
    /\ cohens_d' = CohensD(Differences(pivot))
    /\ pc' = StmtAfter("effect_size")
    /\ UNCHANGED <<file, fault, df, mean_times, pivot, sizes, idx, loopv, out, chart>>

\* line 28
PrintCohensD ==
    /\ pc = "print_cohens_d"
    /\ PrintLines(<<[kind |-> "cohens_d", val |-> cohens_d]>>)
    /\ pc' = StmtAfter("print_cohens_d")
    /\ UNCHANGED <<file, fault, df, mean_times, pivot, differences, cohens_d, sizes, idx, loopv, chart>>

\* line 31
PrintTestsTitle ==
    /\ pc = "print_tests_title"
    /\ PrintLines(<<[kind |-> "text", val |-> "Per-Message-Size Statistical Tests:"]>>)
    /\ pc' = StmtAfter("print_tests_title")
    /\ UNCHANGED <<file, fault, df, mean_times, pivot, differences, cohens_d, sizes, idx, loopv, chart>>

\* (mutation) the distinct values in ascending order, as numpy.unique
BytesUniqueSorted(d) == SortedSeq({d[i].bytes : i \in 1..Len(d)})

\* line 32: the iterable is evaluated once, before the first iteration
BytesUnique(d) == Unique([i \in 1..Len(d) |-> d[i].bytes])

For ==
    /\ pc = "for"
    /\ sizes' = BytesUnique(df)
    /\ idx' = 0
    /\ pc' = StmtAfter("for")
    /\ UNCHANGED <<file, fault, df, mean_times, pivot, differences, cohens_d, loopv, out, chart>>

\* lines 33-37: the body of the loop, for the element bound to msg_size
LoopVars(d, msg_size) ==
    LET k1_data == K1Data(d, msg_size)
        k8_data == K8Data(d, msg_size)
        tt == TTestInd(k1_data, k8_data)
    IN  [msg_size |-> msg_size, k1_data |-> k1_data, k8_data |-> k8_data,
         t_stat |-> tt.t, p_val |-> tt.p,
         mean_improvement |-> MeanImprovement(k1_data, k8_data)]

\* lines 32-37: the next element is bound to msg_size and the body computes
LoopBody ==
    /\ pc = "loop"
    /\ idx < Len(sizes)
    /\ loopv' = LoopVars(df, sizes[idx + 1])
    /\ idx' = idx + 1
    /\ pc' = StmtAfter("loop_body")
    /\ UNCHANGED <<file, fault, df, mean_times, pivot, differences, cohens_d, sizes, out, chart>>

\* lines 39-43
PrintBlock ==
    /\ pc = "print_block"
    /\ PrintLines(<<[kind |-> "size_line", val |-> loopv.msg_size],
               [kind |-> "k1_line", val |-> <<Mean(loopv.k1_data), Len(loopv.k1_data)>>],
               [kind |-> "k8_line", val |-> <<Mean(loopv.k8_data), Len(loopv.k8_data)>>],
               [kind |-> "improvement_line", val |-> loopv.mean_improvement],
               [kind |-> "ttest_line", val |-> <<loopv.t_stat, loopv.p_val>>]>>)
    /\ pc' = StmtAfter("print_block")
    /\ UNCHANGED <<file, fault, df, mean_times, pivot, differences, cohens_d, sizes, idx, loopv, chart>>

\* the iterable is exhausted: the script ends
LoopExit ==
    /\ pc = "loop"
    /\ idx = Len(sizes)
    /\ pc' = "done"
    /\ UNCHANGED <<file, fault, df, mean_times, pivot, differences, cohens_d, sizes, idx, loopv, out, chart>>

Next ==
    \/ Load
    \/ GroupBy
    \/ PivotStep
    \/ Rename
    \/ PrintMeans
    \/ DeriveStep
    \/ PrintImprovements
    \/ EffectSize
    \/ PrintCohensD
    \/ PrintTestsTitle
    \/ For
    \/ LoopBody
    \/ PrintBlock
    \/ LoopExit

Spec == Init /\ [][Next]_vars


----------------------------------------------------------------------------
(* barchart.py *)

GroupKeys(d) == {<<d[i].bytes, d[i].k>> : i \in 1..Len(d)}

\* groups["time"].mean(): a Series indexed by the (bytes, k) pairs that occur
GroupMeans(d) == [g \in GroupKeys(d) |-> Mean(TimesOf(d, g[2], g[1]))]

\* (mutation) the population deviation, divisor n: 0 for a group of one
GroupStdsPopulation(d) ==
    [g \in GroupKeys(d) |->
        FDiv(SumSqDev(TimesOf(d, g[2], g[1])), F(Len(TimesOf(d, g[2], g[1]))))]

\* groups["time"].std(): ddof=1, NaN for a group of one; the model keeps the
\* square of the standard deviation
GroupStds(d) == [g \in GroupKeys(d) |-> Var1(TimesOf(d, g[2], g[1]))]

\* groups["time"].count()
GroupCounts(d) == [g \in GroupKeys(d) |-> Len(TimesOf(d, g[2], g[1]))]

\* line 12: 1.96 * stds / np.sqrt(ns), kept as its square
HalfWidths(stds, ns) ==
    [g \in DOMAIN stds |-> FDiv(FMul(FMul(Norm(196, 100), Norm(196, 100)), stds[g]), F(ns[g]))]

\* line 15
ByteSizes(d) == SortedSeq({d[i].bytes : i \in 1..Len(d)})

\* series[(b, k_val)] raises KeyError for a pair that is no group
LookupRaises(series, byte_sizes, k_val) ==
    \E i \in 1..Len(byte_sizes) : <<byte_sizes[i], k_val>> \notin DOMAIN series

Lookup(series, byte_sizes, k_val) ==
    [i \in 1..Len(byte_sizes) |-> series[<<byte_sizes[i], k_val>>]]

ChartKs == <<1, 8>>

ChartAfter(stmt) ==
    CASE stmt = "load" -> "chart_groupby"
      [] stmt = "chart_groupby" -> "chart_means"
      [] stmt = "chart_means" -> "chart_stds"
      [] stmt = "chart_stds" -> "chart_ns"
      [] stmt = "chart_ns" -> "chart_cis"
      [] stmt = "chart_cis" -> "chart_axes"
      [] stmt = "chart_axes" -> "chart_bars"
      [] stmt = "chart_bars" -> "chart_show"
      [] OTHER -> "done"

StatVars == <<mean_times, pivot, differences, cohens_d, sizes, idx, loopv, out>>

\* line 6
ChartLoad ==
    /\ pc = "load"
    /\ IF ReadCsvRaises(file)
       THEN Raise(ReadCsvError(file)) /\ UNCHANGED df
       ELSE df' = ReadCsv(file) /\ pc' = ChartAfter("load") /\ UNCHANGED fault
    /\ UNCHANGED <<file, chart, StatVars>>

\* line 8: grouping by a column the table lacks raises KeyError
ChartGroupBy ==
    /\ pc = "chart_groupby"
    /\ IF ~({"bytes", "k"} \subseteq file.columns)
       THEN Raise("KeyError")
       ELSE pc' = ChartAfter("chart_groupby") /\ UNCHANGED fault
    /\ UNCHANGED <<file, df, chart, StatVars>>

\* line 9: selecting a column the table lacks raises KeyError
ChartMeans ==
    /\ pc = "chart_means"
    /\ IF "time" \notin file.columns
       THEN Raise("KeyError") /\ UNCHANGED chart
       ELSE chart' = [chart EXCEPT !.means = GroupMeans(df)]
            /\ pc' = ChartAfter("chart_means") /\ UNCHANGED fault
    /\ UNCHANGED <<file, df, StatVars>>

\* line 10
ChartStds ==
    /\ pc = "chart_stds"
    /\ chart' = [chart EXCEPT !.stds = GroupStds(df)]
    /\ pc' = ChartAfter("chart_stds")
    /\ UNCHANGED <<file, fault, df, StatVars>>

\* line 11
ChartNs ==
    /\ pc = "chart_ns"
    /\ chart' = [chart EXCEPT !.ns = GroupCounts(df)]
    /\ pc' = ChartAfter("chart_ns")
    /\ UNCHANGED <<file, fault, df, StatVars>>

\* line 12
ChartCis ==
    /\ pc = "chart_cis"
    /\ chart' = [chart EXCEPT !.cis = HalfWidths(chart.stds, chart.ns)]
    /\ pc' = ChartAfter("chart_cis")
    /\ UNCHANGED <<file, fault, df, StatVars>>

\* lines 15-19
ChartAxes ==
    /\ pc = "chart_axes"
    /\ chart' = [chart EXCEPT !.byte_sizes = ByteSizes(df)]
    /\ pc' = ChartAfter("chart_axes")
    /\ UNCHANGED <<file, fault, df, StatVars>>

\* lines 21-24: one iteration per k_val of [1, 8]; ax.bar accepts NaN
\* heights and NaN error bars
ChartBar ==
    /\ pc = "chart_bars"
    /\ Len(chart.bars) < Len(ChartKs)
    /\ LET k_val == ChartKs[Len(chart.bars) + 1]
       IN  IF LookupRaises(chart.means, chart.byte_sizes, k_val)
           THEN Raise("KeyError") /\ UNCHANGED chart
           ELSE /\ chart' = [chart EXCEPT !.bars = Append(@,
                                [k_val |-> k_val,
                                 vals |-> Lookup(chart.means, chart.byte_sizes, k_val),
                                 errs |-> Lookup(chart.cis, chart.byte_sizes, k_val)])]
                /\ UNCHANGED <<pc, fault>>
    /\ UNCHANGED <<file, df, StatVars>>

ChartBarsDone ==
    /\ pc = "chart_bars"
    /\ Len(chart.bars) = Len(ChartKs)
    /\ pc' = ChartAfter("chart_bars")
    /\ UNCHANGED <<file, fault, df, chart, StatVars>>

\* lines 26-33
ChartShow ==
    /\ pc = "chart_show"
    /\ pc' = ChartAfter("chart_show")
    /\ UNCHANGED <<file, fault, df, chart, StatVars>>

ChartNext ==
    \/ ChartLoad
    \/ ChartGroupBy
    \/ ChartMeans
    \/ ChartStds
    \/ ChartNs
    \/ ChartCis
    \/ ChartAxes
    \/ ChartBar
    \/ ChartBarsDone
    \/ ChartShow

ChartSpec == Init /\ [][ChartNext]_vars


----------------------------------------------------------------------------
(* Reference definitions, taken from the records of the file alone *)

RawIdx(k, b) == {i \in 1..Len(file.rows) : file.rows[i].k = k /\ file.rows[i].bytes = b}

RECURSIVE RawSum(_)
RawSum(S) ==
    IF S = {} THEN F(0)
    ELSE LET i == CHOOSE x \in S : TRUE
         IN  FAdd(file.rows[i].time, RawSum(S \ {i}))

RECURSIVE RawSumOfSquares(_)
RawSumOfSquares(S) ==
    IF S = {} THEN F(0)
    ELSE LET i == CHOOSE x \in S : TRUE
         IN  FAdd(FMul(file.rows[i].time, file.rows[i].time), RawSumOfSquares(S \ {i}))

\* the arithmetic mean of the raw time values of a (k, bytes) pair; NaN
\* stands for the mean of no values
RawMean(k, b) ==
    IF RawIdx(k, b) = {} THEN NaN
    ELSE FDiv(RawSum(RawIdx(k, b)), F(Cardinality(RawIdx(k, b))))

RawBytes == {file.rows[i].bytes : i \in 1..Len(file.rows)}
RawKs == {file.rows[i].k : i \in 1..Len(file.rows)}

\* the file holds the two compared levels and no other
OnlyComparedLevels == RawKs = {1, 8}

Renamed == "k1" \in Range(pivot.columns)
Derived == "improvement_%" \in Range(pivot.columns)

RowOf(b) == CHOOSE i \in 1..Len(pivot.index) : pivot.index[i] = b

Kinds == [i \in 1..Len(out) |-> out[i].kind]
Printed(kind) == kind \in Range(Kinds)

\* a statement of statisticaltest.py can execute: the guards of its actions
CanStep ==
    \/ pc \in {"load", "groupby", "pivot", "rename", "print_means", "derive",
                "print_improvements", "effect_size", "print_cohens_d",
                "print_tests_title", "for", "print_block"}
    \/ pc = "loop" /\ idx < Len(sizes)
    \/ pc = "loop" /\ idx = Len(sizes)

\* a statement of barchart.py can execute: the guards of its actions
ChartCanStep ==
    \/ pc \in {"load", "chart_groupby", "chart_means", "chart_stds", "chart_ns",
                "chart_cis", "chart_axes", "chart_show"}
    \/ pc = "chart_bars" /\ Len(chart.bars) < Len(ChartKs)
    \/ pc = "chart_bars" /\ Len(chart.bars) = Len(ChartKs)

----------------------------------------------------------------------------
(* C1 *)

\* C1: once the comparison table has its named columns, it has one row per
\* distinct bytes value of the input, and in each row k1 is the arithmetic
\* mean of the raw times of the records with k=1 and that bytes value and k8
\* the arithmetic mean of the raw times of the records with k=8 and that
\* bytes value.
C1_MeansPerLevel ==
    Renamed =>
        /\ Len(pivot.index) = Cardinality(RawBytes)
        /\ Range(pivot.index) = RawBytes
        /\ \A i \in 1..Len(pivot.index) :
              /\ Column(pivot, "k1")[i] = RawMean(1, pivot.index[i])
              /\ Column(pivot, "k8")[i] = RawMean(8, pivot.index[i])

\* the same statement for the files that hold the levels 1 and 8 and no other
C1_OnComparedLevels == OnlyComparedLevels => C1_MeansPerLevel

----------------------------------------------------------------------------
(* C2 *)

\* C2: for every bytes value, the improvement_% stored in the comparison
\* table equals the improvement percentage the per-size loop recomputes from
\* the raw k=1 and k=8 samples of that bytes value.
C2_ImprovementAgrees ==
    pc = "print_block" =>
        Column(pivot, "improvement_%")[RowOf(loopv.msg_size)] = loopv.mean_improvement

C2_OnComparedLevels == OnlyComparedLevels => C2_ImprovementAgrees

----------------------------------------------------------------------------
(* C3 *)

\* the bytes values that have records under both k=1 and k=8
BothLevels == {b \in RawBytes : RawIdx(1, b) # {} /\ RawIdx(8, b) # {}}

RefDifferences ==
    LET bs == SortedSeq(BothLevels)
    IN  [i \in 1..Len(bs) |-> FSub(RawMean(1, bs[i]), RawMean(8, bs[i]))]

\* mean / sample standard deviation (divisor n - 1), by the sums of the
\* values and of their squares
RefCohensD ==
    LET n == Len(RefDifferences)
        sum == SeqSum(RefDifferences)
        sumsq == SeqSum([i \in 1..n |-> FMul(RefDifferences[i], RefDifferences[i])])
        mean == FDiv(sum, F(n))
        var == IF n < 2 THEN NaN
               ELSE FDiv(FSub(sumsq, FMul(F(n), FMul(mean, mean))), F(n - 1))
    IN  FDivSqrt(mean, var)

\* the bytes values whose difference enters the mean and the deviation
Entering == {pivot.index[i] : i \in {j \in 1..Len(differences) : ~IsNaN(differences[j])}}

EffectSizeDone ==
    pc \in {"print_cohens_d", "print_tests_title", "for", "loop", "print_block", "done"}

\* C3: Cohen's d is mean(differences) / sample_stddev(differences) over the
\* differences k1_mean - k8_mean of exactly the bytes values that have
\* records under both k=1 and k=8, each once.
C3_CohensD ==
    EffectSizeDone =>
        /\ Entering = BothLevels
        /\ Len(differences) = Len(pivot.index)
        /\ cohens_d = RefCohensD

C3_OnComparedLevels == OnlyComparedLevels => C3_CohensD

----------------------------------------------------------------------------
(* C5 *)

\* C5: when a bytes value has records under k=1 and none under k=8, the
\* reshape either faults or leaves NaN in the k8 cell of its row.
C5_MissingLevelIsNaN ==
    \A b \in RawBytes :
        (RawIdx(1, b) # {} /\ RawIdx(8, b) = {} /\ Renamed) =>
            IsNaN(Column(pivot, "k8")[RowOf(b)])

C5_OnComparedLevels == OnlyComparedLevels => C5_MissingLevelIsNaN


----------------------------------------------------------------------------
(* C4 *)

NonFinite(a) == ~IsFinite(a)

\* a bytes value lacks one of the two column levels
MissingLevelAt(i) ==
    IsNaN(Column(pivot, "k1")[i]) \/ IsNaN(Column(pivot, "k8")[i])

\* the improvement percentage of row i divides by zero
ZeroDivisorAt(i) == Column(pivot, "k1")[i] = F(0)

\* the standard deviation Cohen's d divides by is zero
ZeroDeviation ==
    /\ Len(DropNa(differences)) >= 2
    /\ \A i, j \in 1..Len(differences) :
          (~IsNaN(differences[i]) /\ ~IsNaN(differences[j])) => differences[i] = differences[j]

\* a sample of the per-size test is empty or single
SmallSample == Len(loopv.k1_data) <= 1 \/ Len(loopv.k8_data) <= 1

Degeneracy ==
    \/ Derived /\ \E i \in 1..Len(pivot.index) : MissingLevelAt(i) \/ ZeroDivisorAt(i)
    \/ EffectSizeDone /\ ZeroDeviation
    \/ pc = "print_block" /\ (SmallSample \/ Mean(loopv.k1_data) = F(0))

\* C4 as stated: once a numeric degeneracy has arisen the run has ended in a
\* fault.
C4_DegeneracyFaults == Degeneracy => pc = "fault"

\* C4 (amended): no numeric degeneracy raises a fault.  A missing level gives
\* NaN in its row, a zero divisor gives NaN or an infinity in the improvement
\* percentage and in Cohen's d, an empty sample gives a NaN statistic, p-value
\* and improvement, and the run goes on to its next statement.  A run faults
\* only before any output: at the load, at the group-by on a missing column,
\* or at the rename when the file does not hold exactly two distinct k values.
C4_DegeneracySurfaces ==
    /\ pc = "fault" =>
          /\ out = <<>>
          /\ ~Renamed
          /\ \/ ReadCsvRaises(file)
             \/ file.columns # AllColumns
             \/ Cardinality(RawKs) # 2
    /\ Derived =>
          \A i \in 1..Len(pivot.index) :
             /\ ZeroDivisorAt(i) => NonFinite(Column(pivot, "improvement_%")[i])
             /\ MissingLevelAt(i) =>
                   /\ IsNaN(Column(pivot, "improvement_%")[i])
                   /\ IsNaN(Column(pivot, "time_saved_s")[i])
    /\ (EffectSizeDone /\ ZeroDeviation) => NonFinite(cohens_d[2])
    /\ pc = "print_block" =>
          /\ (Len(loopv.k1_data) = 0 \/ Len(loopv.k8_data) = 0) =>
                /\ IsNaN(loopv.t_stat[2])
                /\ IsNaN(loopv.p_val[1])
                /\ IsNaN(loopv.mean_improvement)
          /\ Mean(loopv.k1_data) = F(0) => NonFinite(loopv.mean_improvement)
    /\ Degeneracy => (pc # "fault" /\ (pc # "done" => CanStep))

\* a run that met a zero divisor and a missing level and printed its whole report
C4_Witness ==
    /\ pc = "done"
    /\ \E i \in 1..Len(pivot.index) : ZeroDivisorAt(i)
    /\ \E i \in 1..Len(pivot.index) : MissingLevelAt(i)
    /\ Printed("ttest_line")

\* a run whose Cohen's d divided by a zero deviation
C4_WitnessZeroDeviation == pc = "done" /\ ZeroDeviation

----------------------------------------------------------------------------
(* C6 *)

RawCount(k, b) == Cardinality(RawIdx(k, b))

\* the square of 1.96 * s / sqrt(n), s the sample standard deviation, by the
\* sums of the values and of their squares
RefHalfWidth(k, b) ==
    LET n == RawCount(k, b)
        mean == RawMean(k, b)
        ss == FSub(RawSumOfSquares(RawIdx(k, b)), FMul(F(n), FMul(mean, mean)))
    IN  FDiv(FMul(Norm(38416, 10000), FDiv(ss, F(n - 1))), F(n))

SingleSampleGroup == \E g \in GroupKeys(file.rows) : RawCount(g[2], g[1]) = 1

HalfWidthsAsStated ==
    \A g \in DOMAIN chart.cis :
        /\ RawCount(g[2], g[1]) = 1 => IsNaN(chart.stds[g]) /\ IsNaN(chart.cis[g])
        /\ RawCount(g[2], g[1]) >= 2 =>
              IsFinite(chart.cis[g]) /\ chart.cis[g] = RefHalfWidth(g[2], g[1])

\* every bytes value of the file has a record under k=1 and under k=8
BothLevelsEverywhere == \A b \in RawBytes : RawIdx(1, b) # {} /\ RawIdx(8, b) # {}

\* C6 as stated: with a group of exactly one sample the half-width of that
\* group is NaN, the other groups have their half-widths, and the script
\* does not fault.
C6_SingleSampleNoFault ==
    SingleSampleGroup => (pc # "fault" /\ HalfWidthsAsStated)

\* C6 (amended): a group of exactly one sample has a NaN standard deviation
\* and a NaN half-width, which raise no fault, and a group of two or more
\* samples has its defined half-width.  The script runs to its end, drawing
\* both bar series with these error bars, when every bytes value of the file
\* has a record under k=1 and under k=8; it faults with KeyError in the bar
\* loop when one of those groups is missing.
C6_SingleSampleSurfaces ==
    SingleSampleGroup =>
        /\ HalfWidthsAsStated
        /\ pc = "fault" => (fault = "KeyError" /\ ~BothLevelsEverywhere)
        /\ BothLevelsEverywhere =>
              /\ pc # "fault"
              /\ pc # "done" => ChartCanStep
              /\ pc = "done" =>
                    /\ Len(chart.bars) = 2
                    /\ \A j \in 1..2 : \A i \in 1..Len(chart.byte_sizes) :
                          LET k == ChartKs[j]
                              b == chart.byte_sizes[i]
                          IN  chart.bars[j].errs[i] =
                                 (IF RawCount(k, b) = 1 THEN NaN ELSE RefHalfWidth(k, b))

\* the chart was drawn from a file with a single-sample group and a larger group
C6_Witness ==
    /\ pc = "done"
    /\ Len(chart.bars) = 2
    /\ \E g \in GroupKeys(file.rows) : RawCount(g[2], g[1]) = 1 /\ IsNaN(chart.cis[g])
    /\ \E g \in GroupKeys(file.rows) : RawCount(g[2], g[1]) >= 2 /\ chart.cis[g][1] > 0


----------------------------------------------------------------------------
(* C7 *)

\* the pooled two-sample t-test on the raw samples of a bytes value, from
\* the counts, the sums and the sums of squares of the two samples:
\*   t = (m1 - m2) / sqrt(sp2 * (1/n1 + 1/n2)),
\*   sp2 = (ss1 + ss2) / (n1 + n2 - 2),  two-tailed p on n1 + n2 - 2 degrees
RefSS(k, b) ==
    FSub(RawSumOfSquares(RawIdx(k, b)),
         FMul(F(RawCount(k, b)), FMul(RawMean(k, b), RawMean(k, b))))

RefPooledVar(b) ==
    FDiv(FAdd(RefSS(1, b), RefSS(8, b)), F(RawCount(1, b) + RawCount(8, b) - 2))

\* the test is defined: both samples non-empty, a positive number of degrees
\* of freedom and a positive pooled variance
RefDefined(b) ==
    /\ RawCount(1, b) >= 1
    /\ RawCount(8, b) >= 1
    /\ RawCount(1, b) + RawCount(8, b) >= 3
    /\ RefPooledVar(b)[1] > 0

RefTSquared(b) ==
    LET d == FSub(RawMean(1, b), RawMean(8, b))
        n1 == RawCount(1, b)
        n2 == RawCount(8, b)
    IN  FDiv(FMul(FMul(d, d), F(n1 * n2)), FMul(RefPooledVar(b), F(n1 + n2)))

RefT(b) == <<Sgn(FSub(RawMean(1, b), RawMean(8, b))[1]), RefTSquared(b)>>

RefP(b) == <<RefTSquared(b), RawCount(1, b) + RawCount(8, b) - 2>>

TestLines == {i \in 1..Len(out) : out[i].kind = "ttest_line"}

\* the bytes value of the block a t-test line belongs to
SizeOfTestLine(i) == out[i - 4].val

\* C7: every reported t-statistic and p-value is that of the pooled,
\* two-tailed two-sample t-test on the raw k=1 and k=8 samples of the block's
\* bytes value; where that test is undefined the reported statistic is NaN or
\* an infinity.  A finished run has reported the test of every bytes value.
C7_PooledTTest ==
    /\ \A i \in TestLines :
          IF RefDefined(SizeOfTestLine(i))
          THEN out[i].val = <<RefT(SizeOfTestLine(i)), RefP(SizeOfTestLine(i))>>
          ELSE NonFinite(out[i].val[1][2])
    /\ pc = "done" => {SizeOfTestLine(i) : i \in TestLines} = RawBytes

\* a finished run that reported a defined, non-zero statistic from samples
\* of different sizes
C7_Witness ==
    /\ pc = "done"
    /\ \E i \in TestLines :
          /\ RefDefined(SizeOfTestLine(i))
          /\ RawCount(1, SizeOfTestLine(i)) # RawCount(8, SizeOfTestLine(i))
          /\ out[i].val[1][1] # 0


----------------------------------------------------------------------------
(* C8 *)

FirstIndex(b) == SetMin({i \in 1..Len(file.rows) : file.rows[i].bytes = b})

\* the bytes values of the printed blocks, in the order printed
PrintedSizes ==
    LET lines == SelectSeq(out, LAMBDA item : item.kind = "size_line")
    IN  [i \in 1..Len(lines) |-> lines[i].val]

Position(kind) == {i \in 1..Len(out) : out[i].kind = kind}

Before(kind1, kind2) == \A i \in Position(kind1), j \in Position(kind2) : i < j

\* statements left to execute, at most
Variant ==
    LET rank == CASE pc = "load" -> 11 [] pc = "groupby" -> 10 [] pc = "pivot" -> 9
                  [] pc = "rename" -> 8 [] pc = "print_means" -> 7 [] pc = "derive" -> 6
                  [] pc = "print_improvements" -> 5 [] pc = "effect_size" -> 4
                  [] pc = "print_cohens_d" -> 3 [] pc = "print_tests_title" -> 2
                  [] pc = "for" -> 1 [] OTHER -> 0
    IN  CASE pc \in {"done", "fault"} -> 0
          [] pc = "loop" -> 2 * (Len(sizes) - idx) + 1
          [] pc = "print_block" -> 2 * (Len(sizes) - idx) + 2
          [] OTHER -> 2 * Len(file.rows) + 2 + rank

C8_Blocks ==
    /\ pc = "done" =>
          /\ Len(PrintedSizes) = Cardinality(RawBytes)
          /\ Range(PrintedSizes) = RawBytes
          /\ \A i, j \in 1..Len(PrintedSizes) :
                i < j => FirstIndex(PrintedSizes[i]) < FirstIndex(PrintedSizes[j])
          /\ \A i \in Position("size_line") :
                /\ i + 4 <= Len(out)
                /\ <<out[i + 1].kind, out[i + 2].kind, out[i + 3].kind, out[i + 4].kind>>
                      = <<"k1_line", "k8_line", "improvement_line", "ttest_line">>
          /\ Cardinality(Position("cohens_d")) = 1
          /\ Cardinality(Position("improvements_table")) = 1
          /\ Cardinality(Position("mean_times_table")) = 1
    /\ Printed("size_line") => Printed("cohens_d")
    /\ Printed("cohens_d") => Printed("improvements_table")
    /\ Printed("improvements_table") => Printed("mean_times_table")
    /\ Before("cohens_d", "size_line")
    /\ Before("improvements_table", "cohens_d")
    /\ Before("mean_times_table", "improvements_table")
    /\ pc \notin {"done", "fault"} => CanStep
    /\ Variant >= 0

\* C8: a run that does not fault terminates (a statement can execute in
\* every state but the final ones, and every step lowers the number of
\* statements left), and it has then printed exactly one block per distinct
\* bytes value, in order of first appearance in the file, every block after
\* the Cohen's d line, that line after the improvements table, that table
\* after the mean-times table.
C8_OneBlockPerSize == []C8_Blocks /\ [][Variant' < Variant]_vars

\* a finished run over two bytes values, the larger one first in the file
C8_Witness ==
    /\ pc = "done"
    /\ Len(PrintedSizes) = 2
    /\ PrintedSizes[1] > PrintedSizes[2]

----------------------------------------------------------------------------
(* C9 *)

BlockKinds == <<"size_line", "k1_line", "k8_line", "improvement_line", "ttest_line">>

RECURSIVE Repeat(_, _)
Repeat(s, n) == IF n = 0 THEN <<>> ELSE s \o Repeat(s, n - 1)

\* the complete report for a file of n distinct bytes values
CompleteReport(n) ==
    <<"text", "mean_times_table", "rule", "text", "improvements_table", "rule",
      "cohens_d", "text">> \o Repeat(BlockKinds, n)

\* C9: a run that ends in a fault has printed nothing, a run that ends
\* otherwise has printed the complete report, and a run ends nowhere else.
C9_AllOrNothing ==
    /\ pc = "fault" => out = <<>>
    /\ pc = "done" => Kinds = CompleteReport(Cardinality(RawBytes))
    /\ pc \notin {"done", "fault"} => CanStep

\* the rename raised on a file that was loaded, grouped and pivoted
C9_Witness == pc = "fault" /\ fault = "ValueError" /\ Len(df) > 1 /\ out = <<>>

C9_WitnessDone == pc = "done" /\ Len(out) > Len(CompleteReport(1))

----------------------------------------------------------------------------
(* C10 *)

\* the raw time values of a (k, bytes) pair in file order
RefSample(k, b) ==
    LET at == SortedSeq(RawIdx(k, b))
    IN  [i \in 1..Len(at) |-> file.rows[at[i]].time]

\* the table as printed by the first print of the report
FirstPrinted == out[CHOOSE i \in 1..Len(out) : out[i].kind = "mean_times_table"].val

C10_AsLoaded ==
    /\ (pc # "load" /\ ~ReadCsvRaises(file)) => df = file.rows
    /\ pc = "print_block" =>
          /\ loopv.k1_data = RefSample(1, loopv.msg_size)
          /\ loopv.k8_data = RefSample(8, loopv.msg_size)
    /\ EffectSizeDone =>
          /\ differences = SeriesSub(Column(FirstPrinted, "k1"), Column(FirstPrinted, "k8"))
          /\ Column(pivot, "k1") = Column(FirstPrinted, "k1")
          /\ Column(pivot, "k8") = Column(FirstPrinted, "k8")

C10_Frame ==
    /\ pc # "load" => df' = df
    /\ Renamed =>
          /\ pivot'.index = pivot.index
          /\ Column(pivot', "k1") = Column(pivot, "k1")
          /\ Column(pivot', "k8") = Column(pivot, "k8")

\* C10: no statement after the load changes the loaded table, and no
\* statement after the rename changes the k1 and k8 columns; the samples of
\* the per-size loop are the records as loaded and the differences of Cohen's
\* d are the k1 and k8 means as first printed.
C10_ReadOnly == []C10_AsLoaded /\ [][C10_Frame]_vars

\* a finished run whose table got its derived columns and whose loop ran
C10_Witness ==
    /\ pc = "done"
    /\ Derived
    /\ Len(df) > 2
    /\ Printed("ttest_line")
    /\ \E i \in 1..Len(differences) : IsFinite(differences[i]) /\ differences[i] # F(0)

====
